---- MODULE Spec2Model ----
(***************************************************************************)
(* OCIWatcher (pkg/repository/oci_watcher.go): Start registers the remote  *)
(* repository and launches `go wait.Until(c.Poll, c.duration,              *)
(* c.ctx.Done())`; Stop removes the repository and cancels the context;    *)
(* Poll is one cycle: RepoUpdate, GetConfig, GetOCIRepoCharts, build the    *)
(* Component, Create, updateRepository.                                     *)
(*                                                                         *)
(* Every call that leaves the watcher (helm.*, ctrl.GetConfig, c.Create,   *)
(* updateRepository) is a step of its own, so that Stop and the clock      *)
(* interleave with a running Poll.  A call that returns an error does so   *)
(* nondeterministically.                                                    *)
(*                                                                         *)
(* wait.Until(f, period, stopCh) of k8s.io/apimachinery is                  *)
(* JitterUntil(f, period, 0.0, true, stopCh), i.e. BackoffUntil with        *)
(* sliding = true:                                                          *)
(*     for { select { case <-stopCh: return; default: }                     *)
(*           f()                                                            *)
(*           t = backoff.Backoff()          (armed after f returns)         *)
(*           select { case <-stopCh: return; case <-t.C(): } }              *)
(* Time is a discrete clock advanced by Tick; elapsed times are counted up  *)
(* to Duration and stay there.                                              *)
(***************************************************************************)
EXTENDS Integers, Sequences, FiniteSets, TLC

\* c.duration, the poll interval, in clock ticks
Duration == 2
\* c.instance.Spec.KeywordLenLimit is 0 (no limit) or KeywordLimit
KeywordLimit == 1

Min(a, b) == IF a < b THEN a ELSE b
Max(a, b) == IF a > b THEN a ELSE b

----------------------------------------------------------------------------
(* The remote catalog: what helm.GetOCIRepoCharts returns (latest, all),   *)
(* with the result of v1alpha1.Match(c.filterMap, ...) on it, which is a   *)
(* pure function of the watcher's filter map and the version list.         *)

Maintainer(n, e, u) == [Name |-> n, Email |-> e, URL |-> u]

ChartVersion(v, created, deprecated) ==
    [Version |-> v, AppVersion |-> v, Created |-> created, Digest |-> v,
     Deprecated |-> deprecated, Annotations |-> v]

Catalogs ==
    << [Description |-> "d1",
        Maintainers |-> << Maintainer("a", "e1", "u1"), Maintainer("a", "e2", "u2"),
                           Maintainer("b", "e1", "u1") >>,
        Keywords    |-> << "k1", "k2", "k3" >>,
        all         |-> << ChartVersion("v1", 1, TRUE), ChartVersion("v2", 2, FALSE),
                           ChartVersion("v3", 3, FALSE) >>,
        Indices     |-> << 2, 0 >>,
        Keep        |-> TRUE],
       [Description |-> "d2",
        Maintainers |-> << Maintainer("b", "e2", "u2") >>,
        Keywords    |-> << "k2" >>,
        all         |-> << ChartVersion("v1", 1, TRUE), ChartVersion("v2", 2, FALSE) >>,
        Indices     |-> << 1 >>,
        Keep        |-> FALSE] >>

CatalogIds == 1..Len(Catalogs)

----------------------------------------------------------------------------
VARIABLES
    startRes,       \* what Start returned: "none" (not called), "ok", "err"
    registered,     \* the transport layer holds the repository entry (RepoAdd/RepoRemove)
    timeouts,       \* per transport call: was it made, was it given a timeout, which
    cancelled,      \* c.ctx is cancelled: c.ctx.Done() is closed
    stopPc,         \* Stop: "idle", "RepoRemove", "cancel", "done"
    removeRes,      \* what helm.RepoRemove returned in Stop: "none", "ok", "err"
    loopPc,         \* the wait.Until goroutine: "none", "top", "poll", "wait", "done"
    timer,          \* ticks left on the timer armed after f returned
    pollPc,         \* Poll: "idle", "RepoUpdate", "GetConfig", "GetOCIRepoCharts",
                    \*       "Create", "updateRepository"
    inflight,       \* invocations of Poll begun and not yet returned
    now,            \* Poll's `now`, captured at line 108
    charts,         \* Poll's `latest`, `all`, `filterVersionIndices` and `keep`
    item,           \* Poll's `item`, built at lines 136-199
    KeywordLenLimit,\* c.instance.Spec.KeywordLenLimit
    catalog,        \* the remote catalog (an index of Catalogs)
    sink,           \* the cluster store's Component under the derived key, or NoComponent
    conds,          \* the repository's ready and sync conditions
    sinceStart,     \* ticks since Start returned, up to Duration
    sincePoll,      \* ticks since the last Poll returned, up to Duration
    polled,         \* a Poll has returned
    cur,            \* what the cycle in progress (or the last one) did
    prev,           \* of the cycle before it: catalog fetched, Create's result, updated
    stopAt          \* `polled` when Stop was called, pollPc when cancel() was called

vars == << startRes, registered, timeouts, cancelled, stopPc, removeRes, loopPc, timer,
           pollPc, inflight, now, charts, item, KeywordLenLimit, catalog, sink,
           conds, sinceStart, sincePoll, polled, cur, prev, stopAt >>

NoComponent == [Name |-> "none"]
NoCharts == [Description |-> "none"]
NoConds == [set |-> FALSE, ready |-> 0, sync |-> 0]
NoCall == [called |-> FALSE, bounded |-> FALSE, timeout |-> 0]

\* the record of one cycle: the step that failed, the catalog fetched, what Create
\* returned, the line logged after Create, whether updateRepository was called,
\* where Stop was when the cycle began
NoCycle == [began |-> FALSE, failed |-> "none", fetched |-> 0, create |-> "none",
            log |-> "none", updated |-> FALSE, beganAt |-> "none"]

Summary(c) == [fetched |-> c.fetched, create |-> c.create, updated |-> c.updated]

\* where Stop is, for a cycle that begins: before helm.RepoRemove returned
\* ("none"), between it and c.cancel() ("cancel"), or after ("done")
StopPhase == IF stopPc \in {"cancel", "done"} THEN stopPc ELSE "none"

\* before cancel() is called
NoStop == [polled |-> FALSE, pc |-> "none"]

Init ==
    /\ startRes = "none"
    /\ registered = FALSE
    /\ timeouts = [RepoAdd |-> NoCall, RepoUpdate |-> NoCall, GetOCIRepoCharts |-> NoCall]
    /\ cancelled = FALSE
    /\ stopPc = "idle"
    /\ removeRes = "none"
    /\ loopPc = "none"
    /\ timer = 0
    /\ pollPc = "idle"
    /\ inflight = 0
    /\ now = 0
    /\ charts = NoCharts
    /\ item = NoComponent
    /\ KeywordLenLimit \in {0, KeywordLimit}
    /\ catalog \in CatalogIds
    /\ sink = NoComponent
    /\ conds = NoConds
    /\ sinceStart = 0
    /\ sincePoll = 0
    /\ polled = FALSE
    /\ cur = NoCycle
    /\ prev = Summary(NoCycle)
    /\ stopAt = NoStop

----------------------------------------------------------------------------
(* Building the Component: Poll, lines 136-199.                            *)

\* fmt.Sprintf("%s.%s", c.instance.GetName(), entryName): fixed for one watcher
ComponentName == "repo.entry"

\* lines 161-167 without the `!ok` test: a later maintainer of the same name
\* replaces the earlier one
RECURSIVE maintainersFrom_lastWins(_, _, _)
maintainersFrom_lastWins(ms, i, m) ==
    IF i > Len(ms) THEN m
    ELSE maintainersFrom_lastWins(ms, i + 1,
             [n \in DOMAIN m \cup {ms[i].Name} |->
                 IF n = ms[i].Name THEN Maintainer(ms[i].Name, ms[i].Email, ms[i].URL)
                 ELSE m[n]])

\* lines 159-168: the map from name to the first maintainer of that name
RECURSIVE maintainersFrom(_, _, _)
maintainersFrom(ms, i, m) ==
    IF i > Len(ms) THEN m
    ELSE maintainersFrom(ms, i + 1,
             IF ms[i].Name \in DOMAIN m THEN m
             ELSE m @@ (ms[i].Name :> Maintainer(ms[i].Name, ms[i].Email, ms[i].URL)))

maintainers(ms) == maintainersFrom(ms, 1, << >>)

\* lines 195-197: `for _, m := range maintainers` visits the keys of a Go map, in
\* an order the language leaves unspecified: every order of the keys is possible
RangeOrders(m) ==
    { s \in [1..Cardinality(DOMAIN m) -> DOMAIN m] :
        \A i, j \in DOMAIN s : i # j => s[i] # s[j] }

\* lines 174-182
ComponentVersion(version, t) ==
    [Annotations |-> version.Annotations, Version |-> version.Version,
     AppVersion |-> version.AppVersion, CreatedAt |-> version.Created,
     Digest |-> version.Digest, UpdatedAt |-> t, Deprecated |-> version.Deprecated]

\* lines 171-184 without the `if keep`
Versions_ignoreKeep(all, filterVersionIndices, keep, t) ==
    [j \in 1..Len(filterVersionIndices) |->
        ComponentVersion(all[filterVersionIndices[j] + 1], t)]

\* line 173 as `version := all[i]`, with i the position in filterVersionIndices
Versions_byPosition(all, filterVersionIndices, keep, t) ==
    IF keep
    THEN [j \in 1..Len(filterVersionIndices) |-> ComponentVersion(all[j], t)]
    ELSE << >>

\* lines 169-184: filterVersionIndices are indices of `all`, from 0
Versions(all, filterVersionIndices, keep, t) ==
    IF keep
    THEN [j \in 1..Len(filterVersionIndices) |->
             ComponentVersion(all[filterVersionIndices[j] + 1], t)]
    ELSE << >>

\* line 187 as `keywords[len(keywords)-r:]`: the last r keywords
Keywords_tail(keywords, r) ==
    IF r > 0 /\ Len(keywords) > r
    THEN SubSeq(keywords, Len(keywords) - r + 1, Len(keywords))
    ELSE keywords

\* lines 185-188
Keywords(keywords, r) ==
    IF r > 0 /\ Len(keywords) > r THEN SubSeq(keywords, 1, r) ELSE keywords

\* lines 136-199, with the order `order` of the range over the maintainers map
BuildItem(c, r, order, t) ==
    [Name        |-> ComponentName,
     Description |-> c.Description,
     Versions    |-> Versions(c.all, c.Indices, c.Keep, t),
     Keywords    |-> Keywords(c.Keywords, r),
     Maintainers |-> [i \in DOMAIN order |-> maintainers(c.Maintainers)[order[i]]]]

\* lines 130-199: Poll's locals after the fetch returned `c`
Build(c) ==
    /\ charts' = c
    /\ \E order \in RangeOrders(maintainers(c.Maintainers)) :
         item' = BuildItem(c, KeywordLenLimit, order, sinceStart)

\* line 202 without `&& !errors.IsAlreadyExists(err)`
CreateLog_strict(res) ==
    IF res # "ok" THEN "failed to create component"
    ELSE "Successfully created component"

\* lines 202-206: the line logged after c.Create returned `res`
CreateLog(res) ==
    IF res # "ok" /\ res # "exists" THEN "failed to create component"
    ELSE "Successfully created component"

\* updateRepository(ctx, instance, c, logger, readyCond, syncCond)
updateRepository(readyCond, syncCond) ==
    [set |-> TRUE, ready |-> readyCond, sync |-> syncCond]

----------------------------------------------------------------------------
(* Start, lines 80-95.                                                     *)

Call(t) == [called |-> TRUE, bounded |-> TRUE, timeout |-> t]
CallUnbounded == [called |-> TRUE, bounded |-> FALSE, timeout |-> 0]

\* line 93: `go wait.Until(c.Poll, c.duration, c.ctx.Done())` starts the goroutine
\* at the top of wait.Until's loop
LaunchLoop == loopPc' = "top"

\* Start with the `return err` of line 90 missing: the loop is launched although
\* helm.RepoAdd failed
Start_noReturn ==
    /\ startRes = "none"
    /\ \E setup, add \in {"ok", "err"} :
         IF setup = "err"
         THEN /\ startRes' = "err"
              /\ UNCHANGED << timeouts, registered, loopPc >>
         ELSE /\ timeouts' = [timeouts EXCEPT !.RepoAdd = Call(Duration \div 2)]
              /\ registered' = (add = "ok")
              /\ LaunchLoop
              /\ startRes' = add
    /\ UNCHANGED << cancelled, stopPc, removeRes, timer, pollPc, inflight, now, charts, item,
                    KeywordLenLimit, catalog, sink, conds, sinceStart, sincePoll,
                    polled, cur, prev, stopAt >>

\* `setup` is what the package's Start(...) returned at line 81, `add` what
\* helm.RepoAdd returned at line 88
Start ==
    /\ startRes = "none"
    /\ \E setup, add \in {"ok", "err"} :
         IF setup = "err"
         THEN /\ startRes' = "err"
              /\ UNCHANGED << timeouts, registered, loopPc >>
         ELSE /\ timeouts' = [timeouts EXCEPT !.RepoAdd = Call(Duration \div 2)]
              /\ IF add = "err"
                 THEN /\ startRes' = "err"
                      /\ UNCHANGED << registered, loopPc >>
                 ELSE /\ registered' = TRUE
                      /\ LaunchLoop
                      /\ startRes' = "ok"
    /\ UNCHANGED << cancelled, stopPc, removeRes, timer, pollPc, inflight, now, charts, item,
                    KeywordLenLimit, catalog, sink, conds, sinceStart, sincePoll,
                    polled, cur, prev, stopAt >>

----------------------------------------------------------------------------
(* Stop, lines 97-103.  The controller calls Stop on a watcher it has      *)
(* started, whatever Start returned.                                       *)

\* line 98
StopCall ==
    /\ startRes # "none"
    /\ stopPc = "idle"
    /\ stopPc' = "RepoRemove"
    /\ stopAt' = [stopAt EXCEPT !.polled = polled]
    /\ UNCHANGED << startRes, registered, timeouts, cancelled, removeRes, loopPc, timer,
                    pollPc, inflight, now, charts, item, KeywordLenLimit, catalog, sink, conds,
                    sinceStart, sincePoll, polled, cur, prev >>

\* Stop returning on the error of helm.RepoRemove, before c.cancel()
StopRepoRemove_returnsOnError ==
    /\ stopPc = "RepoRemove"
    /\ \E res \in {"ok", "err"} :
         /\ removeRes' = res
         /\ registered' = IF res = "ok" THEN FALSE ELSE registered
         /\ stopPc' = IF res = "ok" THEN "cancel" ELSE "done"
    /\ UNCHANGED << startRes, timeouts, cancelled, loopPc, timer, pollPc, inflight, now,
                    charts, item, KeywordLenLimit, catalog, sink, conds, sinceStart, sincePoll,
                    polled, cur, prev, stopAt >>

\* lines 99-101: the error of helm.RepoRemove is logged and dropped
StopRepoRemove ==
    /\ stopPc = "RepoRemove"
    /\ \E res \in {"ok", "err"} :
         /\ removeRes' = res
         /\ registered' = IF res = "ok" THEN FALSE ELSE registered
    /\ stopPc' = "cancel"
    /\ UNCHANGED << startRes, timeouts, cancelled, loopPc, timer, pollPc, inflight, now,
                    charts, item, KeywordLenLimit, catalog, sink, conds, sinceStart, sincePoll,
                    polled, cur, prev, stopAt >>

\* Stop without the c.cancel() of line 102
StopCancel_missing ==
    /\ stopPc = "cancel"
    /\ stopPc' = "done"
    /\ stopAt' = [stopAt EXCEPT !.pc = pollPc]
    /\ UNCHANGED << startRes, registered, timeouts, cancelled, removeRes, loopPc, timer,
                    pollPc, inflight, now, charts, item, KeywordLenLimit, catalog, sink, conds,
                    sinceStart, sincePoll, polled, cur, prev >>

\* line 102: c.cancel() closes c.ctx.Done(); it touches neither the goroutine nor
\* a Poll that is running
StopCancel ==
    /\ stopPc = "cancel"
    /\ cancelled' = TRUE
    /\ stopPc' = "done"
    /\ stopAt' = [stopAt EXCEPT !.pc = pollPc]
    /\ UNCHANGED << startRes, registered, timeouts, removeRes, loopPc, timer, pollPc,
                    inflight, now, charts, item, KeywordLenLimit, catalog, sink, conds,
                    sinceStart, sincePoll, polled, cur, prev >>

----------------------------------------------------------------------------
(* The goroutine of line 93: wait.Until(c.Poll, c.duration, c.ctx.Done()). *)

\* wait.Until given c.duration/2, the timeout of the transport calls, as its period
Period_half == Duration \div 2

\* the period wait.Until is given
Period == Duration

\* f() has returned: the timer is armed with the period and the loop selects on it
LoopBackoff ==
    /\ loopPc' = "wait"
    /\ timer' = Period

\* the loop starting f in a goroutine of its own and going on to the timer
LoopCall_async == loopPc' = "wait"

\* the loop calls f() and is in it until it returns
LoopCall == loopPc' = "poll"

\* the loop given a stop channel that c.cancel() does not close
LoopStartPoll_unchecked ==
    /\ loopPc = "top"
    /\ LoopCall
    /\ pollPc' = "RepoUpdate"
    /\ inflight' = inflight + 1
    /\ now' = sinceStart
    /\ prev' = Summary(cur)
    /\ cur' = [NoCycle EXCEPT !.began = TRUE, !.beganAt = StopPhase]
    /\ UNCHANGED << startRes, registered, timeouts, cancelled, stopPc, removeRes, timer,
                    charts, item, KeywordLenLimit, catalog, sink, conds, sinceStart, sincePoll,
                    polled, stopAt >>

\* top of the loop: stopCh is not closed, so f = c.Poll is called; lines 107-110
\* of Poll capture `now`.  The check of stopCh and the call are one step: a Poll
\* begins where the loop decides to call it
LoopStartPoll ==
    /\ loopPc = "top"
    /\ ~cancelled
    /\ LoopCall
    /\ pollPc' = "RepoUpdate"
    /\ inflight' = inflight + 1
    /\ now' = sinceStart
    /\ prev' = Summary(cur)
    /\ cur' = [NoCycle EXCEPT !.began = TRUE, !.beganAt = StopPhase]
    /\ UNCHANGED << startRes, registered, timeouts, cancelled, stopPc, removeRes, timer,
                    charts, item, KeywordLenLimit, catalog, sink, conds, sinceStart, sincePoll,
                    polled, stopAt >>

\* top of the loop: stopCh is closed, wait.Until returns
LoopTopStopped ==
    /\ loopPc = "top"
    /\ cancelled
    /\ loopPc' = "done"
    /\ UNCHANGED << startRes, registered, timeouts, cancelled, stopPc, removeRes, timer,
                    pollPc, inflight, now, charts, item, KeywordLenLimit, catalog, sink, conds,
                    sinceStart, sincePoll, polled, cur, prev,
                    stopAt >>

\* the select after f(): stopCh is closed, wait.Until returns
LoopWaitStopped ==
    /\ loopPc = "wait"
    /\ cancelled
    /\ loopPc' = "done"
    /\ UNCHANGED << startRes, registered, timeouts, cancelled, stopPc, removeRes, timer,
                    pollPc, inflight, now, charts, item, KeywordLenLimit, catalog, sink, conds,
                    sinceStart, sincePoll, polled, cur, prev,
                    stopAt >>

\* the select after f(): the timer has fired, back to the top
LoopTimer ==
    /\ loopPc = "wait"
    /\ timer = 0
    /\ loopPc' = "top"
    /\ UNCHANGED << startRes, registered, timeouts, cancelled, stopPc, removeRes, timer,
                    pollPc, inflight, now, charts, item, KeywordLenLimit, catalog, sink, conds,
                    sinceStart, sincePoll, polled, cur, prev,
                    stopAt >>

----------------------------------------------------------------------------
(* Poll, lines 106-209, one step per call that leaves the watcher.         *)

\* Poll returns to wait.Until; its locals are gone
Return ==
    /\ pollPc' = "idle"
    /\ inflight' = inflight - 1
    /\ polled' = TRUE
    /\ sincePoll' = 0
    /\ now' = 0
    /\ charts' = NoCharts
    /\ item' = NoComponent
    /\ LoopBackoff

\* Poll goes on to its next call
Continue(next) ==
    /\ pollPc' = next
    /\ UNCHANGED << inflight, polled, sincePoll, now, loopPc, timer >>

\* lines 112-115
PollRepoUpdate ==
    /\ pollPc = "RepoUpdate"
    /\ timeouts' = [timeouts EXCEPT !.RepoUpdate = Call(Duration \div 2)]
    /\ \E res \in {"ok", "err"} :
         IF res = "err"
         THEN /\ cur' = [cur EXCEPT !.failed = "RepoUpdate"]
              /\ Return
         ELSE /\ Continue("GetConfig")
              /\ UNCHANGED << cur, charts, item >>
    /\ UNCHANGED << startRes, registered, cancelled, stopPc, removeRes, KeywordLenLimit,
                    catalog, sink, conds, sinceStart, prev, stopAt >>

\* lines 116-121
PollGetConfig ==
    /\ pollPc = "GetConfig"
    /\ \E res \in {"ok", "err"} :
         IF res = "err"
         THEN /\ cur' = [cur EXCEPT !.failed = "GetConfig"]
              /\ Return
         ELSE /\ Continue("GetOCIRepoCharts")
              /\ UNCHANGED << cur, charts, item >>
    /\ UNCHANGED << startRes, registered, timeouts, cancelled, stopPc, removeRes,
                    KeywordLenLimit, catalog, sink, conds, sinceStart, prev,
                    stopAt >>

\* Poll with the `return` of line 133 missing: the Component is built from the
\* catalog although the fetch failed
PollGetOCIRepoCharts_noReturn ==
    /\ pollPc = "GetOCIRepoCharts"
    /\ timeouts' = [timeouts EXCEPT !.GetOCIRepoCharts = CallUnbounded]
    /\ \E res \in {"ok", "err"} :
         /\ cur' = IF res = "err" THEN [cur EXCEPT !.failed = "GetOCIRepoCharts"]
                   ELSE [cur EXCEPT !.fetched = catalog]
         /\ Build(Catalogs[catalog])
         /\ pollPc' = "Create"
         /\ UNCHANGED << inflight, polled, sincePoll, now, loopPc, timer >>
    /\ UNCHANGED << startRes, registered, cancelled, stopPc, removeRes, KeywordLenLimit,
                    catalog, sink, conds, sinceStart, prev, stopAt >>

\* Poll ending the goroutine when the fetch fails, as a panic or log.Fatal would
PollGetOCIRepoCharts_fatal ==
    /\ pollPc = "GetOCIRepoCharts"
    /\ timeouts' = [timeouts EXCEPT !.GetOCIRepoCharts = CallUnbounded]
    /\ \E res \in {"ok", "err"} :
         IF res = "err"
         THEN /\ cur' = [cur EXCEPT !.failed = "GetOCIRepoCharts"]
              /\ pollPc' = "idle"
              /\ inflight' = inflight - 1
              /\ polled' = TRUE
              /\ sincePoll' = 0
              /\ now' = 0
              /\ charts' = NoCharts
              /\ item' = NoComponent
              /\ loopPc' = "done"
              /\ UNCHANGED timer
         ELSE /\ cur' = [cur EXCEPT !.fetched = catalog]
              /\ Build(Catalogs[catalog])
              /\ pollPc' = "Create"
              /\ UNCHANGED << inflight, polled, sincePoll, now, loopPc, timer >>
    /\ UNCHANGED << startRes, registered, cancelled, stopPc, removeRes, KeywordLenLimit,
                    catalog, sink, conds, sinceStart, prev, stopAt >>

\* lines 130-199: the fetch, then the Component built from what it returned
PollGetOCIRepoCharts ==
    /\ pollPc = "GetOCIRepoCharts"
    /\ timeouts' = [timeouts EXCEPT !.GetOCIRepoCharts = CallUnbounded]
    /\ \E res \in {"ok", "err"} :
         IF res = "err"
         THEN /\ cur' = [cur EXCEPT !.failed = "GetOCIRepoCharts"]
              /\ Return
         ELSE /\ cur' = [cur EXCEPT !.fetched = catalog]
              /\ Build(Catalogs[catalog])
              /\ pollPc' = "Create"
              /\ UNCHANGED << inflight, polled, sincePoll, now, loopPc, timer >>
    /\ UNCHANGED << startRes, registered, cancelled, stopPc, removeRes, KeywordLenLimit,
                    catalog, sink, conds, sinceStart, prev, stopAt >>

\* what c.Create can return: AlreadyExists ("exists") when the store holds a
\* Component of that name, success when it does not, another error in either case
CreateResults(stored) ==
    IF stored = NoComponent THEN {"ok", "err"} ELSE {"exists", "err"}

\* Poll returning from the error branch of line 203, before updateRepository
PollCreate_returnsOnError ==
    /\ pollPc = "Create"
    /\ \E res \in CreateResults(sink) :
         /\ sink' = IF res = "ok" THEN item ELSE sink
         /\ cur' = [cur EXCEPT !.create = res, !.log = CreateLog(res)]
         /\ IF res = "err"
            THEN Return
            ELSE Continue("updateRepository") /\ UNCHANGED << charts, item >>
    /\ UNCHANGED << startRes, registered, timeouts, cancelled, stopPc, removeRes,
                    KeywordLenLimit, catalog, conds, sinceStart, prev, stopAt >>

\* Poll writing its Component over the stored one when Create answers
\* AlreadyExists
PollCreate_upsert ==
    /\ pollPc = "Create"
    /\ \E res \in CreateResults(sink) :
         /\ sink' = IF res \in {"ok", "exists"} THEN item ELSE sink
         /\ cur' = [cur EXCEPT !.create = res, !.log = CreateLog(res)]
    /\ Continue("updateRepository")
    /\ UNCHANGED << startRes, registered, timeouts, cancelled, stopPc, removeRes, charts,
                    item, KeywordLenLimit, catalog, conds, sinceStart, prev, stopAt >>

\* lines 201-206: neither branch returns
PollCreate ==
    /\ pollPc = "Create"
    /\ \E res \in CreateResults(sink) :
         /\ sink' = IF res = "ok" THEN item ELSE sink
         /\ cur' = [cur EXCEPT !.create = res, !.log = CreateLog(res)]
    /\ Continue("updateRepository")
    /\ UNCHANGED << startRes, registered, timeouts, cancelled, stopPc, removeRes, charts, item,
                    KeywordLenLimit, catalog, conds, sinceStart, prev,
                    stopAt >>

\* line 208, with readyCond = getReadyCond(now) and syncCond = getSyncCond(now) of
\* lines 109-110
PollUpdateRepository ==
    /\ pollPc = "updateRepository"
    /\ conds' = updateRepository(now, now)
    /\ cur' = [cur EXCEPT !.updated = TRUE]
    /\ Return
    /\ UNCHANGED << startRes, registered, timeouts, cancelled, stopPc, removeRes,
                    KeywordLenLimit, catalog, sink, sinceStart, prev,
                    stopAt >>

----------------------------------------------------------------------------
(* The environment.                                                        *)

\* one tick of the clock
Tick ==
    /\ sinceStart' = IF startRes # "none" THEN Min(sinceStart + 1, Duration) ELSE sinceStart
    /\ sincePoll' = IF polled THEN Min(sincePoll + 1, Duration) ELSE sincePoll
    /\ timer' = IF loopPc = "wait" THEN Max(timer - 1, 0) ELSE timer
    /\ UNCHANGED << startRes, registered, timeouts, cancelled, stopPc, removeRes, loopPc,
                    pollPc, inflight, now, charts, item, KeywordLenLimit, catalog, sink, conds,
                    polled, cur, prev, stopAt >>

\* a new chart version is published to the remote repository
CatalogChange ==
    /\ \E c \in CatalogIds \ {catalog} : catalog' = c
    /\ UNCHANGED << startRes, registered, timeouts, cancelled, stopPc, removeRes, loopPc,
                    timer, pollPc, inflight, now, charts, item, KeywordLenLimit, sink, conds,
                    sinceStart, sincePoll, polled, cur, prev,
                    stopAt >>

----------------------------------------------------------------------------
Next ==
    \/ Start
    \/ StopCall
    \/ StopRepoRemove
    \/ StopCancel
    \/ LoopStartPoll
    \/ LoopTopStopped
    \/ LoopWaitStopped
    \/ LoopTimer
    \/ PollRepoUpdate
    \/ PollGetConfig
    \/ PollGetOCIRepoCharts
    \/ PollCreate
    \/ PollUpdateRepository
    \/ Tick
    \/ CatalogChange

Spec == Init /\ [][Next]_vars

\* Every call returns, the goroutine is scheduled, a called Stop runs to its end
\* and the clock advances.  Whether and when Start and Stop are called, and when
\* the catalog changes, is up to the environment.
FairSpec ==
    /\ Spec
    /\ WF_vars(StopRepoRemove)
    /\ WF_vars(StopCancel)
    /\ WF_vars(LoopStartPoll)
    /\ WF_vars(LoopTopStopped)
    /\ WF_vars(LoopWaitStopped)
    /\ WF_vars(LoopTimer)
    /\ WF_vars(PollRepoUpdate)
    /\ WF_vars(PollGetConfig)
    /\ WF_vars(PollGetOCIRepoCharts)
    /\ WF_vars(PollCreate)
    /\ WF_vars(PollUpdateRepository)
    /\ WF_vars(Tick)

----------------------------------------------------------------------------
(* The Component as a function of what the fetch returned: lines 136-199   *)
(* applied to every catalog entry within the bounds below.                 *)

\* the longest maintainer list
MaxMaintainers == 3
\* the longest keyword list, and the largest KeywordLenLimit
MaxKeywords == 4
\* the longest filterVersionIndices
MaxIndices == 2

SeqsUpTo(S, n) == UNION { [1..k -> S] : k \in 0..n }

BuildMaintainers ==
    { Maintainer(n, e, u) : n \in {"a", "b"}, e \in {"e1", "e2"}, u \in {"u1", "u2"} }

\* `all`: three versions, no two alike in any field
BuildAll ==
    << [Version |-> "1.0", AppVersion |-> "a1", Created |-> 1, Digest |-> "d1",
        Deprecated |-> TRUE, Annotations |-> "n1"],
       [Version |-> "1.1", AppVersion |-> "a2", Created |-> 2, Digest |-> "d2",
        Deprecated |-> FALSE, Annotations |-> "n2"],
       [Version |-> "2.0", AppVersion |-> "a3", Created |-> 3, Digest |-> "d3",
        Deprecated |-> FALSE, Annotations |-> "n3"] >>

BuildCharts(ms, kw, idx, keep) ==
    [Description |-> "d", Maintainers |-> ms, Keywords |-> kw, all |-> BuildAll,
     Indices |-> idx, Keep |-> keep]

\* what the fetch returned and c.instance.Spec.KeywordLenLimit: every maintainer
\* list, every keyword list with every limit, every result of v1alpha1.Match
BuildCases ==
    { << BuildCharts(ms, << "k1" >>, << 0 >>, TRUE), 0 >> :
        ms \in SeqsUpTo(BuildMaintainers, MaxMaintainers) }
    \cup { << BuildCharts(<< >>, kw, << 0 >>, TRUE), r >> :
             kw \in SeqsUpTo({"k1", "k2"}, MaxKeywords), r \in 0..MaxKeywords }
    \cup { << BuildCharts(<< >>, << >>, idx, keep), 0 >> :
             idx \in SeqsUpTo(0..(Len(BuildAll) - 1), MaxIndices), keep \in BOOLEAN }

BuildInit ==
    /\ \E case \in BuildCases :
         /\ charts = case[1]
         /\ KeywordLenLimit = case[2]
    /\ startRes = "none"
    /\ registered = FALSE
    /\ timeouts = [RepoAdd |-> NoCall, RepoUpdate |-> NoCall, GetOCIRepoCharts |-> NoCall]
    /\ cancelled = FALSE
    /\ stopPc = "idle"
    /\ removeRes = "none"
    /\ loopPc = "none"
    /\ timer = 0
    /\ pollPc = "idle"
    /\ inflight = 0
    /\ now = 0
    /\ item = NoComponent
    /\ catalog = 1
    /\ sink = NoComponent
    /\ conds = NoConds
    /\ sinceStart = 0
    /\ sincePoll = 0
    /\ polled = FALSE
    /\ cur = NoCycle
    /\ prev = Summary(NoCycle)
    /\ stopAt = NoStop

\* lines 136-199 on `charts`
BuildStep ==
    /\ item = NoComponent
    /\ Build(charts)
    /\ UNCHANGED << startRes, registered, timeouts, cancelled, stopPc, removeRes, loopPc,
                    timer, pollPc, inflight, now, KeywordLenLimit, catalog, sink, conds,
                    sinceStart, sincePoll, polled, cur, prev, stopAt >>

BuildNext == BuildStep

BuildSpec == BuildInit /\ [][BuildNext]_vars

----------------------------------------------------------------------------
(* Properties.                                                             *)

\* a Poll begins in this step
PollBegins == pollPc = "idle" /\ pollPc' # "idle"

\* the cycle recorded in `cur` has returned
CycleEnded == cur.began /\ pollPc = "idle"

\* a step of the cycle recorded in `cur` failed: refresh, client config, fetch or create
CycleFailed == cur.failed # "none" \/ cur.create = "err"

\* C1, as stated: no Poll begins before one full interval has elapsed since
\* Start returned.
C1_NoPollBeforeInterval ==
    (startRes = "ok" /\ cur.began) => sinceStart >= Duration

\* C1, amended: wait.Until calls Poll before it ever waits on the timer, so the
\* first Poll is not delayed by the interval; every later Poll begins only when a
\* full interval has elapsed since the previous Poll returned.
C1_IntervalBetweenPolls ==
    [][ /\ (loopPc' = "wait" => polled')
        /\ (PollBegins /\ polled => sincePoll >= Duration) ]_vars

\* the first Poll has begun with no tick elapsed since Start returned
C1_EagerFirstPoll ==
    startRes = "ok" /\ cur.began /\ ~polled /\ sinceStart = 0

\* a second Poll has begun, one interval after the first returned
C1_Witness ==
    polled /\ pollPc = "RepoUpdate" /\ sincePoll = Duration /\ sinceStart = Duration

\* C2, as stated: every poll cycle, whatever its outcome, ends by updating the
\* repository's conditions.
C2_EveryCycleUpdates ==
    CycleEnded => cur.updated

\* C2, amended: a cycle ends by updating the conditions exactly when the refresh,
\* the client config and the fetch all succeeded, whatever Create returned; a
\* cycle in which one of the three failed returns without updating them.
C2_UpdatesUnlessAbandoned ==
    CycleEnded =>
        /\ cur.updated <=> cur.failed = "none"
        /\ cur.updated <=> cur.create # "none"
        /\ cur.updated => conds.set

\* a cycle abandoned at the fetch, after a cycle that updated the conditions
C2_Witness ==
    CycleEnded /\ cur.failed = "GetOCIRepoCharts" /\ ~cur.updated /\ prev.updated

\* C3, as stated (its first half): after a Stop called before any Poll had
\* returned, the remote source is unregistered.
C3_Unregistered ==
    (startRes = "ok" /\ stopPc = "done" /\ ~stopAt.polled) => ~registered

\* C3, amended: Stop called after a successful Start and before any Poll has
\* returned calls helm.RepoRemove, which unregisters the source unless it fails,
\* and the goroutine of wait.Until then ends, with no Poll left running.
C3_StopBeforeAnyPoll ==
    (startRes = "ok" /\ stopPc = "RepoRemove" /\ ~stopAt.polled)
        ~> /\ stopPc = "done"
           /\ removeRes # "none"
           /\ (removeRes = "ok" => ~registered)
           /\ loopPc = "done"
           /\ pollPc = "idle"

\* Stop was called while the first Poll was at its first step; the source is
\* unregistered and the loop has ended
C3_Witness ==
    /\ startRes = "ok" /\ stopPc = "done" /\ ~stopAt.polled /\ stopAt.pc = "RepoUpdate"
    /\ removeRes = "ok" /\ ~registered /\ loopPc = "done" /\ pollPc = "idle"

\* C4: when Start returns an error (from the setup of line 81 or from
\* helm.RepoAdd), no loop is launched and no Poll ever runs.
C4_FailedStartNoLoop ==
    startRes = "err" => (loopPc = "none" /\ pollPc = "idle" /\ inflight = 0 /\ ~cur.began)

\* helm.RepoAdd failed, and an interval later nothing has run
C4_Witness ==
    startRes = "err" /\ timeouts.RepoAdd.called /\ sinceStart = Duration /\ loopPc = "none"

\* C5: a failed step of a cycle does not end the watcher: the loop then waits on
\* a timer of one full interval, and unless Stop is called the next Poll begins.
C5_NextPollAfterFailure ==
    /\ [](loopPc = "wait" => timer + sincePoll = Duration)
    /\ (CycleEnded /\ CycleFailed /\ stopPc = "idle")
           ~> (pollPc # "idle" \/ stopPc # "idle")

\* a Poll has begun after a cycle that failed before its fetch returned, one
\* interval after it, Stop not called
C5_Witness ==
    /\ polled /\ pollPc = "RepoUpdate" /\ prev.fetched = 0 /\ stopPc = "idle"
    /\ sincePoll = Duration

\* C6: the polls of one loop never overlap: at most one invocation of Poll has
\* begun and not returned.
C6_Serialized ==
    inflight <= 1

\* a second Poll is running, alone
C6_Witness ==
    polled /\ pollPc = "Create" /\ inflight = 1 /\ loopPc = "poll"

C8_StopAfterFailedStart ==
    (startRes = "err" /\ stopPc = "RepoRemove")
        ~> (stopPc = "done" /\ removeRes # "none" /\ cancelled /\ loopPc = "none")

\* Stop has returned after a failed Start and a failed helm.RepoRemove
C8_Witness ==
    startRes = "err" /\ stopPc = "done" /\ removeRes = "err" /\ cancelled

\* C9: of two successive cycles that fetched the same catalog, the first having
\* created the Component or found it there, the second's Create (unless the store
\* fails with another error) returns AlreadyExists, which is logged as a success,
\* and both cycles update the conditions.
C9_SecondPollIdempotent ==
    (/\ CycleEnded
     /\ cur.fetched # 0
     /\ prev.fetched = cur.fetched
     /\ prev.create \in {"ok", "exists"}
     /\ cur.create # "err")
        => /\ cur.create = "exists"
           /\ cur.log = "Successfully created component"
           /\ prev.updated
           /\ cur.updated

\* the cycle after the one that created the Component, same catalog
C9_Witness ==
    /\ CycleEnded /\ prev.create = "ok" /\ prev.fetched = cur.fetched
    /\ cur.create = "exists" /\ cur.updated /\ sink # NoComponent

\* C10: a cycle whose Create failed with an error other than AlreadyExists logs
\* the failure and goes on to updateRepository before it returns.
C10_UpdateAfterCreateError ==
    cur.create = "err" =>
        /\ cur.log = "failed to create component"
        /\ \/ pollPc = "updateRepository" /\ ~cur.updated
           \/ pollPc = "idle" /\ cur.updated /\ conds.set

\* a cycle whose Create failed has returned, the conditions updated, nothing stored
C10_Witness ==
    CycleEnded /\ cur.create = "err" /\ cur.updated /\ conds.set /\ sink = NoComponent

\* C11: a cycle whose index refresh, client config or fetch failed has issued no
\* Create: Create is called only after the fetch returned a catalog, and a failed
\* cycle has returned with no Create recorded.
C11_NoCreateAfterTransportFailure ==
    /\ cur.failed # "none" => (pollPc = "idle" /\ cur.create = "none" /\ item = NoComponent)
    /\ pollPc = "Create" => (cur.failed = "none" /\ cur.fetched # 0)
    /\ cur.create # "none" => (cur.failed = "none" /\ cur.fetched # 0)

\* the first cycle failed at the index refresh and nothing is stored
C11_Witness ==
    CycleEnded /\ cur.failed = "RepoUpdate" /\ cur.create = "none" /\ sink = NoComponent

\* the built Component exists (it does from the fetch to Poll's return)
Built == item # NoComponent

\* the first position of name n in the maintainer list ms
FirstOf(ms, n) ==
    CHOOSE i \in DOMAIN ms : ms[i].Name = n /\ \A j \in 1..(i - 1) : ms[j].Name # n

\* C12: the Component's maintainer list has no two entries of one name, has an
\* entry for exactly the names of the source list, and each entry carries the
\* email and URL of the first source maintainer of its name.
C12_DedupMaintainers ==
    Built =>
        LET ms == charts.Maintainers
            out == item.Maintainers
        IN  /\ \A i, j \in DOMAIN out : i # j => out[i].Name # out[j].Name
            /\ { out[i].Name : i \in DOMAIN out } = { ms[i].Name : i \in DOMAIN ms }
            /\ \A i \in DOMAIN out :
                 /\ out[i].Email = ms[FirstOf(ms, out[i].Name)].Email
                 /\ out[i].URL = ms[FirstOf(ms, out[i].Name)].URL

\* maintainers a, a, b with the two a's differing in email and URL: two entries
C12_Witness ==
    /\ Built
    /\ Len(charts.Maintainers) = 3
    /\ charts.Maintainers[1].Name = "a" /\ charts.Maintainers[2].Name = "a"
    /\ charts.Maintainers[3].Name = "b"
    /\ charts.Maintainers[1].Email # charts.Maintainers[2].Email
    /\ charts.Maintainers[1].URL # charts.Maintainers[2].URL
    /\ Len(item.Maintainers) = 2

\* C13: with a limit k > 0 and more than k keywords the Component has the first
\* k keywords, in order; with at most k keywords, or limit 0, it has them all; so
\* a limit k > 0 is never exceeded.
C13_KeywordLimit ==
    Built =>
        LET kw == charts.Keywords
            k == KeywordLenLimit
            out == item.Keywords
        IN  /\ (k > 0 /\ Len(kw) > k) => (Len(out) = k /\ \A i \in 1..k : out[i] = kw[i])
            /\ (k = 0 \/ Len(kw) <= k) => out = kw
            /\ k > 0 => Len(out) <= k

\* limit 1, four keywords of which the first differs from the last: the first is kept
C13_Witness ==
    /\ Built
    /\ KeywordLenLimit = 1
    /\ Len(charts.Keywords) = 4
    /\ charts.Keywords[1] # charts.Keywords[4]
    /\ item.Keywords = << charts.Keywords[1] >>

\* C14: when v1alpha1.Match returns keep = false, Poll still builds the
\* Component with its metadata and calls Create for it, and its version list is
\* empty whatever indices Match returned.
C14_KeepFalseStillCreates ==
    /\ (Built /\ ~charts.Keep) =>
          /\ item.Name = ComponentName
          /\ item.Description = charts.Description
          /\ item.Versions = << >>
          /\ (pollPc = "Create" \/ cur.create # "none")
    /\ (cur.fetched # 0 /\ ~Catalogs[cur.fetched].Keep) =>
          /\ (pollPc = "Create" \/ cur.create # "none")
          /\ (cur.create = "ok" /\ pollPc = "updateRepository") => sink = item
          /\ (cur.create = "ok") => (sink.Name = ComponentName /\ sink.Versions = << >>)

\* a cycle that fetched the catalog with keep = false and one index has created
\* the Component, without versions
C14_Witness ==
    /\ CycleEnded /\ cur.fetched # 0 /\ ~Catalogs[cur.fetched].Keep
    /\ Catalogs[cur.fetched].Indices # << >>
    /\ cur.create = "ok"
    /\ sink.Name = ComponentName /\ sink.Versions = << >>
    /\ sink.Description = Catalogs[cur.fetched].Description

\* C15: with keep = true and indices i1..in the Component has n version records,
\* the j-th with the version, app version, digest, created time, deprecation flag
\* and annotations of all[ij].
C15_RetainedVersions ==
    (Built /\ charts.Keep) =>
        /\ Len(item.Versions) = Len(charts.Indices)
        /\ \A j \in DOMAIN item.Versions :
             LET v == charts.all[charts.Indices[j] + 1]
                 o == item.Versions[j]
             IN  /\ o.Version = v.Version
                 /\ o.AppVersion = v.AppVersion
                 /\ o.Digest = v.Digest
                 /\ o.CreatedAt = v.Created
                 /\ o.Deprecated = v.Deprecated
                 /\ o.Annotations = v.Annotations

\* indices 2, 0: the third version, then the first
C15_Witness ==
    /\ Built /\ charts.Keep /\ charts.Indices = << 2, 0 >>
    /\ Len(item.Versions) = 2
    /\ item.Versions[1].Version = "2.0" /\ item.Versions[2].Version = "1.0"

\* C16: once a Component is stored under the derived name, no step changes it.
C16_NoUpdatePath ==
    [][sink # NoComponent => sink' = sink]_vars

\* a cycle that fetched another catalog than the one the stored Component was
\* built from got AlreadyExists, and the stored Component is the old one
C16_Witness ==
    /\ CycleEnded /\ cur.create = "exists" /\ sink # NoComponent
    /\ sink.Description # Catalogs[cur.fetched].Description

\* C17: helm.RepoAdd, helm.RepoUpdate and helm.GetOCIRepoCharts are
\* each given a timeout of half the poll interval.
C17_AllCallsHalfInterval ==
    \A call \in {"RepoAdd", "RepoUpdate", "GetOCIRepoCharts"} :
        timeouts[call].called =>
            (timeouts[call].bounded /\ timeouts[call].timeout = Duration \div 2)

\* C18: no Poll begins between helm.RepoRemove's return in Stop and
\* c.cancel().
C18_NoPollBetweenRemoveAndCancel ==
    cur.began => cur.beganAt # "cancel"

\* Poll calls Create, or updateRepository, in this step
Writes ==
    \/ pollPc = "Create" /\ pollPc' # "Create"
    \/ pollPc = "updateRepository" /\ pollPc' # "updateRepository"

RECURSIVE FirstOccurrences(_, _)
FirstOccurrences(ms, i) ==
    IF i > Len(ms) THEN << >>
    ELSE IF FirstOf(ms, ms[i].Name) = i
         THEN << Maintainer(ms[i].Name, ms[i].Email, ms[i].URL) >>
                  \o FirstOccurrences(ms, i + 1)
         ELSE FirstOccurrences(ms, i + 1)

\* C20: the Component's maintainer list is determined by the source list: it is
\* the first occurrences of each name, in source order.
C20_MaintainersInSourceOrder ==
    Built => item.Maintainers = FirstOccurrences(charts.Maintainers, 1)

====
